---- MODULE Spec2Model ----
(***************************************************************************)
(* Model of neural_toric_examples.ipynb: the recursive enumerator of       *)
(* inductively 1-pierced neural codes (make_induct_one_pierced), the       *)
(* reordering helper reverse_code, the labelling helper                    *)
(* make_variable_names_from_matrix and the table builder                   *)
(* make_table_toric_degrees.                                               *)
(*                                                                         *)
(* Python lists are sequences; Python index k is TLA+ index k+1.           *)
(* A codeword is a sequence of bits, a code a sequence of codewords, a     *)
(* code list a sequence of codes.  A Python string is the sequence of its  *)
(* characters.                                                             *)
(***************************************************************************)
EXTENDS Integers, Sequences, FiniteSets, TLC

\* ------------------------------------------------------------------ bounds
\* largest argument n given to make_induct_one_pierced
MaxN == 4
\* largest number of codes in a code list given to make_table_toric_degrees
MaxCodes == 2
\* largest total number of codewords in a freely chosen code list
MaxWords == 3
\* largest length of a sequence given to reverse_code on its own
MaxRevLen == 4
\* largest matrix given to make_variable_names_from_matrix on its own
MaxRows == 2
MaxCols == 3

VARIABLES
    n,               \* argument of the outermost make_induct_one_pierced call
    level,           \* argument n of the frame that is currently executing
    pc,              \* position of the executing frame
    ret,             \* value returned by the frame that returned last
    smaller_codes,   \* local smaller_codes of the executing frame
    ci,              \* position of `for code in smaller_codes`
    inflate,         \* local inflate of the executing frame
    di,              \* position of `for d in code`
    ni,              \* position of `for i in range(0, n-1)` (1-based)
    zero_piercings,  \* local zero_piercings of the executing frame
    one_piercings,   \* local one_piercings of the executing frame
    code_list,       \* argument of make_table_toric_degrees
    tpc,             \* position of make_table_toric_degrees
    ti,              \* position of `for code in code_list`
    toric_ideals,    \* local toric_ideals: one ideal per processed code
    clean,           \* local clean: the records of the table
    terr,            \* the exception that left make_table_toric_degrees
    rc_code,         \* argument of a direct reverse_code call
    rc_results,      \* value returned by that call
    rc_pc,           \* position of that call
    nm_mat,          \* argument of a direct make_variable_names_from_matrix call
    nm_names,        \* value returned by that call
    nm_pc            \* position of that call

enumVars == <<n, level, pc, ret, smaller_codes, ci, inflate, di, ni,
              zero_piercings, one_piercings>>

tableVars == <<code_list, tpc, ti, toric_ideals, clean, terr>>

revVars == <<rc_code, rc_results, rc_pc>>

namesVars == <<nm_mat, nm_names, nm_pc>>

vars == <<enumVars, tableVars, revVars, namesVars>>

\* ------------------------------------------------- make_induct_one_pierced
\* faulty variant: the base case returns the codewords [0] and [1] as two codes
BaseCodesSplit == << << <<0>> >>, << <<1>> >> >>

\* the value returned for n == 1: one code holding the codewords [0] and [1]
BaseCodes == << << <<0>>, <<1>> >> >>

\* faulty variant: inflate copies the codewords without appending the 0
InflateUnpadded(code) == [k \in 1..Len(code) |-> code[k]]

\* inflate: every codeword of code with a 0 appended
Inflate(code) == [k \in 1..Len(code) |-> Append(code[k], 0)]

\* faulty variant: the 0-piercing appends 0 instead of 1 to d
ZeroPiercingPadZero(infl, d) == Append(infl, Append(d, 0))

\* newcode of the 0-piercing loop: a copy of inflate followed by d + [1]
ZeroPiercing(infl, d) == Append(infl, Append(d, 1))

\* chi: the codewords of code that have a 1 at neuron i
Chi(code, i) == SelectSeq(code, LAMBDA codeword : codeword[i] = 1)

\* Python `x in code` on a list of lists: equality with some element
InCode(x, code) == \E k \in 1..Len(code) : code[k] = x

\* faulty variant: pairs are kept without the test `partner2 in code`
PairsUnchecked(code, i) ==
    LET chi == Chi(code, i)
    IN  [k \in 1..Len(chi) |-> <<chi[k], [chi[k] EXCEPT ![i] = 0]>>]

\* pairs: (partner1, partner2) for every codeword of chi whose copy with
\* neuron i cleared is in code, in the order of chi
Pairs(code, i) ==
    LET chi == Chi(code, i)
        all == [k \in 1..Len(chi) |-> <<chi[k], [chi[k] EXCEPT ![i] = 0]>>]
    IN  SelectSeq(all, LAMBDA pair : InCode(pair[2], code))

\* faulty variant: the 1-piercing extends by [pair[0], pair[1]]
OnePiercingSwapped(infl, pair) ==
    infl \o <<Append(pair[1], 1), Append(pair[2], 1)>>

\* newcode of the 1-piercing loop: a copy of inflate extended by
\* [pair[1], pair[0]] after 1 was appended to both members of the pair
OnePiercing(infl, pair) == infl \o <<Append(pair[2], 1), Append(pair[1], 1)>>

\* the codes the body of `for i` appends to one_piercings for one neuron i
OnePiercingsOf(code, infl, i) ==
    LET pairs == Pairs(code, i)
    IN  [k \in 1..Len(pairs) |-> OnePiercing(infl, pairs[k])]

EnumIdle ==
    /\ n = 0
    /\ level = 0
    /\ pc = "idle"
    /\ ret = <<>>
    /\ smaller_codes = <<>>
    /\ ci = 0
    /\ inflate = <<>>
    /\ di = 0
    /\ ni = 0
    /\ zero_piercings = <<>>
    /\ one_piercings = <<>>

EnumInit ==
    /\ n \in 1..MaxN
    /\ level = n
    /\ pc = "call"
    /\ ret = <<>>
    /\ smaller_codes = <<>>
    /\ ci = 0
    /\ inflate = <<>>
    /\ di = 0
    /\ ni = 0
    /\ zero_piercings = <<>>
    /\ one_piercings = <<>>

\* n == 1: return [[[0],[1]]]
Base ==
    /\ pc = "call"
    /\ level = 1
    /\ ret' = BaseCodes
    /\ pc' = "return"
    /\ UNCHANGED <<n, level, smaller_codes, ci, inflate, di, ni,
                   zero_piercings, one_piercings>>
    /\ UNCHANGED <<tableVars, revVars, namesVars>>

\* n > 1: the recursive call make_induct_one_pierced(n-1) is entered
Recurse ==
    /\ pc = "call"
    /\ level > 1
    /\ level' = level - 1
    /\ UNCHANGED <<n, pc, ret, smaller_codes, ci, inflate, di, ni,
                   zero_piercings, one_piercings>>
    /\ UNCHANGED <<tableVars, revVars, namesVars>>

\* the recursive call returns into the frame for level + 1, which binds
\* smaller_codes and creates its two empty result lists
Resume ==
    /\ pc = "return"
    /\ level < n
    /\ level' = level + 1
    /\ smaller_codes' = ret
    /\ zero_piercings' = <<>>
    /\ one_piercings' = <<>>
    /\ ci' = 1
    /\ inflate' = <<>>
    /\ di' = 0
    /\ ni' = 0
    /\ pc' = "for_code"
    /\ UNCHANGED <<n, ret>>
    /\ UNCHANGED <<tableVars, revVars, namesVars>>

\* `for code in smaller_codes`: take the next code and build inflate
ForCode ==
    /\ pc = "for_code"
    /\ ci <= Len(smaller_codes)
    /\ inflate' = Inflate(smaller_codes[ci])
    /\ di' = 1
    /\ pc' = "for_d"
    /\ UNCHANGED <<n, level, ret, smaller_codes, ci, ni,
                   zero_piercings, one_piercings>>
    /\ UNCHANGED <<tableVars, revVars, namesVars>>

\* one iteration of `for d in code`
ForD ==
    /\ pc = "for_d"
    /\ di <= Len(smaller_codes[ci])
    /\ zero_piercings' =
           Append(zero_piercings, ZeroPiercing(inflate, smaller_codes[ci][di]))
    /\ di' = di + 1
    /\ UNCHANGED <<n, level, pc, ret, smaller_codes, ci, inflate, ni,
                   one_piercings>>
    /\ UNCHANGED <<tableVars, revVars, namesVars>>

\* `for d in code` is exhausted: enter `for i in range(0, n-1)`
EndForD ==
    /\ pc = "for_d"
    /\ di > Len(smaller_codes[ci])
    /\ ni' = 1
    /\ pc' = "for_i"
    /\ UNCHANGED <<n, level, ret, smaller_codes, ci, inflate, di,
                   zero_piercings, one_piercings>>
    /\ UNCHANGED <<tableVars, revVars, namesVars>>

\* one iteration of `for i in range(0, n-1)`: chi, pairs and the pair loop
ForI ==
    /\ pc = "for_i"
    /\ ni <= level - 1
    /\ one_piercings' =
           one_piercings \o OnePiercingsOf(smaller_codes[ci], inflate, ni)
    /\ ni' = ni + 1
    /\ UNCHANGED <<n, level, pc, ret, smaller_codes, ci, inflate, di,
                   zero_piercings>>
    /\ UNCHANGED <<tableVars, revVars, namesVars>>

\* `for i` is exhausted: back to `for code in smaller_codes`
EndForI ==
    /\ pc = "for_i"
    /\ ni > level - 1
    /\ ci' = ci + 1
    /\ pc' = "for_code"
    /\ UNCHANGED <<n, level, ret, smaller_codes, inflate, di, ni,
                   zero_piercings, one_piercings>>
    /\ UNCHANGED <<tableVars, revVars, namesVars>>

\* `for code` is exhausted: return zero_piercings+one_piercings
Return ==
    /\ pc = "for_code"
    /\ ci > Len(smaller_codes)
    /\ ret' = zero_piercings \o one_piercings
    /\ pc' = "return"
    /\ UNCHANGED <<n, level, smaller_codes, ci, inflate, di, ni,
                   zero_piercings, one_piercings>>
    /\ UNCHANGED <<tableVars, revVars, namesVars>>

EnumNext ==
    \/ Base
    \/ Recurse
    \/ Resume
    \/ ForCode
    \/ ForD
    \/ EndForD
    \/ ForI
    \/ EndForI
    \/ Return

\* ------------------------------------------------------------ reverse_code
\* the loop `for i in range(0, len(code)-1)`: results.append(code[len(code)-1-i])
RECURSIVE ReverseLoop(_, _, _)
ReverseLoop(code, results, i) ==
    IF i >= Len(code) - 1
    THEN results
    ELSE ReverseLoop(code, Append(results, code[(Len(code) - 1 - i) + 1]), i + 1)

\* faulty variant: the whole list is reversed, the first element included
ReverseAll(code) == [k \in 1..Len(code) |-> code[Len(code) - k + 1]]

\* results = [code[0]], then the loop
reverse_code(code) == ReverseLoop(code, <<code[1]>>, 0)

\* faulty variant: a code that leaves fewer than 2 codewords once the first is dropped
\* is rejected with EmptyCode
ConstructionErrorEmptyCode(code) ==
    IF Len(code) - 1 < 2 THEN "EmptyCode" ELSE "none"

\* the exception the construction of a code's matrix raises: code[0] of an
\* empty list is an IndexError, nothing else is checked
ConstructionError(code) == IF Len(code) = 0 THEN "IndexError" ELSE "none"

\* ----------------------------------------------------------------- matrices
\* a matrix is its dimensions and its rows
\* matrix(rows): one row per element of the list
Matrix(rows) ==
    [nrows |-> Len(rows),
     ncols |-> IF Len(rows) = 0 THEN 0 ELSE Len(rows[1]),
     rows  |-> rows]

\* mat.columns()
Columns(mat) ==
    [c \in 1..mat.ncols |-> [r \in 1..mat.nrows |-> mat.rows[r][c]]]

\* mat.transpose()
Transpose(mat) ==
    [nrows |-> mat.ncols, ncols |-> mat.nrows, rows |-> Columns(mat)]

\* seq[1:]
AllButFirst(seq) == SubSeq(seq, 2, Len(seq))

\* seq[:-1]
AllButLast(seq) == SubSeq(seq, 1, Len(seq) - 1)

\* faulty variant: the matrix is built from code[1:] without reverse_code
BuildMatrixUnreversed(code) == Transpose(Matrix(AllButFirst(code)))

\* mat = matrix(reverse_code(code)[1:]).transpose()
BuildMatrix(code) == Transpose(Matrix(AllButFirst(reverse_code(code))))

\* ------------------------------------------ make_variable_names_from_matrix
\* str(position) for a matrix entry
Digits == <<"0", "1", "2", "3", "4", "5", "6", "7", "8", "9">>

Str(position) == Digits[position + 1]

\* `for position in col`: name = name + str(position)
RECURSIVE NameLoop(_, _, _)
NameLoop(col, name, k) ==
    IF k > Len(col)
    THEN name
    ELSE NameLoop(col, Append(name, Str(col[k])), k + 1)

\* `for col in mat.columns()`: names = names + name + ','
RECURSIVE NamesLoop(_, _, _)
NamesLoop(cols, names, c) ==
    IF c > Len(cols)
    THEN names
    ELSE NamesLoop(cols, (names \o NameLoop(cols[c], <<"y">>, 1)) \o <<",">>, c + 1)

\* faulty variant: names is returned without dropping its last character
NamesWithTrailingComma(mat) == NamesLoop(Columns(mat), <<>>, 1)

make_variable_names_from_matrix(mat) ==
    AllButLast(NamesLoop(Columns(mat), <<>>, 1))

\* ------------------------------------------------ make_table_toric_degrees
\* The toric-ideal routine is external.  An ideal is modelled by what the
\* routine was given and by the degrees of its generators, which the routine
\* decides: any of DegreeLists.  The zero ideal has the one generator 0, of
\* degree -1; an ideal always has at least one generator.
DegreeLists == {<<-1>>, <<2>>, <<1, 3, 2>>}

ToricIdeal(mat, names, degrees) ==
    [mat |-> mat, names |-> names, degrees |-> degrees]

\* toric_ideal.groebner_basis(): decided by the ideal, opaque otherwise
GroebnerBasis(toric_ideal) ==
    <<"groebner_basis", toric_ideal.names, toric_ideal.degrees>>

\* max(degrees)
RECURSIVE MaxLoop(_, _, _)
MaxLoop(degrees, best, k) ==
    IF k > Len(degrees)
    THEN best
    ELSE MaxLoop(degrees, IF degrees[k] > best THEN degrees[k] ELSE best, k + 1)

MaxDegree(degrees) == MaxLoop(degrees, degrees[1], 2)

\* faulty variant: every ideal with a single generator is taken for the trivial one
KeepRecordSeveral(degrees) == Len(degrees) /= 1

\* `if degrees !=[-1]`
KeepRecord(degrees) == degrees /= <<-1>>

\* the entry appended to clean
Record(mat, toric_ideal, degrees) ==
    <<mat, GroebnerBasis(toric_ideal), MaxDegree(degrees)>>

TableIdle ==
    /\ code_list = <<>>
    /\ tpc = "idle"
    /\ ti = 0
    /\ toric_ideals = <<>>
    /\ clean = <<>>
    /\ terr = "none"

\* the codewords freely chosen code lists are made of
Words == {<<0, 0>>, <<1, 0>>, <<0, 1>>, <<1, 1>>}

\* the code list that cuts the codewords of flat into count codes at cuts
Split(flat, cuts, count) ==
    [j \in 1..count |->
        SubSeq(flat,
               (IF j = 1 THEN 0 ELSE cuts[j - 1]) + 1,
               IF j = count THEN Len(flat) ELSE cuts[j])]

\* make_table_toric_degrees is called on any code list of at most MaxCodes
\* codes and MaxWords codewords in all; a code may be empty
TableInit ==
    /\ \E count \in 0..MaxCodes, total \in 0..MaxWords :
         /\ count = 0 => total = 0
         /\ \E flat \in [1..total -> Words],
               cuts \in [1..(count - 1) -> 0..total] :
              /\ \A j \in 1..(count - 2) : cuts[j] <= cuts[j + 1]
              /\ code_list = Split(flat, cuts, count)
    /\ tpc = "for_code"
    /\ ti = 1
    /\ toric_ideals = <<>>
    /\ clean = <<>>
    /\ terr = "none"

\* make_table_toric_degrees(make_induct_one_pierced(n)): the table is built
\* from enumerated codes, here from any run of at most MaxCodes consecutive
\* codes of the returned list; the enumerator's frame is gone
MakeTable ==
    /\ pc = "return"
    /\ level = n
    /\ tpc = "idle"
    /\ \E first \in 1..Len(ret), count \in 1..MaxCodes :
         /\ first + count - 1 <= Len(ret)
         /\ code_list' = SubSeq(ret, first, first + count - 1)
    /\ tpc' = "for_code"
    /\ ti' = 1
    /\ toric_ideals' = <<>>
    /\ clean' = <<>>
    /\ terr' = "none"
    /\ n' = 0
    /\ level' = 0
    /\ pc' = "done"
    /\ ret' = <<>>
    /\ smaller_codes' = <<>>
    /\ ci' = 0
    /\ inflate' = <<>>
    /\ di' = 0
    /\ ni' = 0
    /\ zero_piercings' = <<>>
    /\ one_piercings' = <<>>
    /\ UNCHANGED <<revVars, namesVars>>

\* one iteration of `for code in code_list`
TableBody ==
    /\ tpc = "for_code"
    /\ ti <= Len(code_list)
    /\ IF ConstructionError(code_list[ti]) /= "none"
       THEN /\ terr' = ConstructionError(code_list[ti])
            /\ tpc' = "raised"
            /\ UNCHANGED <<ti, toric_ideals, clean>>
       ELSE /\ \E degrees \in DegreeLists :
                 LET mat == BuildMatrix(code_list[ti])
                     toric_ideal ==
                         ToricIdeal(mat, make_variable_names_from_matrix(mat),
                                    degrees)
                 IN  /\ toric_ideals' = Append(toric_ideals, toric_ideal)
                     /\ clean' = IF KeepRecord(degrees)
                                 THEN Append(clean,
                                             Record(mat, toric_ideal, degrees))
                                 ELSE clean
            /\ ti' = ti + 1
            /\ UNCHANGED <<tpc, terr>>
    /\ UNCHANGED <<code_list, enumVars, revVars, namesVars>>

\* `for code in code_list` is exhausted: return table(clean)
TableReturn ==
    /\ tpc = "for_code"
    /\ ti > Len(code_list)
    /\ tpc' = "returned"
    /\ UNCHANGED <<code_list, ti, toric_ideals, clean, terr>>
    /\ UNCHANGED <<enumVars, revVars, namesVars>>

\* ----------------------------------------------- direct calls of the helpers
RevIdle ==
    /\ rc_code = <<>>
    /\ rc_results = <<>>
    /\ rc_pc = "idle"

\* the elements of the sequences given to reverse_code on its own
Elems == {"a", "b", "c", "d"}

RevInit ==
    /\ rc_code \in UNION {[1..len -> Elems] : len \in 0..MaxRevLen}
    /\ rc_results = <<>>
    /\ rc_pc = "call"

\* reverse_code(rc_code): returns results, or raises at code[0]
ReverseCode ==
    /\ rc_pc = "call"
    /\ IF ConstructionError(rc_code) /= "none"
       THEN /\ rc_pc' = "raised"
            /\ UNCHANGED rc_results
       ELSE /\ rc_results' = reverse_code(rc_code)
            /\ rc_pc' = "returned"
    /\ UNCHANGED <<rc_code, enumVars, tableVars, namesVars>>

NamesIdle ==
    /\ nm_mat = Matrix(<<>>)
    /\ nm_names = <<>>
    /\ nm_pc = "idle"

\* every 0/1 matrix of at most MaxRows rows and MaxCols columns
Matrices ==
    UNION {{[nrows |-> r, ncols |-> c, rows |-> rows] :
               rows \in [1..r -> [1..c -> {0, 1}]]} :
           r \in 0..MaxRows, c \in 0..MaxCols}

NamesInit ==
    /\ nm_mat \in Matrices
    /\ nm_names = <<>>
    /\ nm_pc = "call"

\* make_variable_names_from_matrix(nm_mat)
MakeVariableNames ==
    /\ nm_pc = "call"
    /\ nm_names' = make_variable_names_from_matrix(nm_mat)
    /\ nm_pc' = "returned"
    /\ UNCHANGED <<nm_mat, enumVars, tableVars, revVars>>

\* ---------------------------------------------------------- specifications
\* the notebook's pipeline: enumerate, then tabulate enumerated codes
Init == EnumInit /\ TableIdle /\ RevIdle /\ NamesIdle

Next ==
    \/ EnumNext
    \/ MakeTable
    \/ TableBody
    \/ TableReturn

Spec == Init /\ [][Next]_vars

\* make_table_toric_degrees on any code list
TableSpecInit == EnumIdle /\ TableInit /\ RevIdle /\ NamesIdle

TableNext ==
    \/ TableBody
    \/ TableReturn

SpecTable == TableSpecInit /\ [][TableNext]_vars

\* reverse_code on any sequence
RevSpecInit == EnumIdle /\ TableIdle /\ RevInit /\ NamesIdle

RevNext == ReverseCode

SpecRev == RevSpecInit /\ [][RevNext]_vars

\* make_variable_names_from_matrix on any matrix
NamesSpecInit == EnumIdle /\ TableIdle /\ RevIdle /\ NamesInit

NamesNext == MakeVariableNames

SpecNames == NamesSpecInit /\ [][NamesNext]_vars

\* ------------------------------------------------------------------ claims
\* the enumerator frame for argument level has just returned ret
ReturnedFrom(k) == pc = "return" /\ level = k

\* C1: every codeword of every code returned by make_induct_one_pierced(k),
\* k >= 1, has length exactly k
C1_CodewordLength ==
    pc = "return" =>
        \A c \in 1..Len(ret) : \A w \in 1..Len(ret[c]) : Len(ret[c][w]) = level

C1_Witness == ReturnedFrom(3) /\ n = 3 /\ Len(ret) > 0

\* C2 as stated: called with n = 1 the enumerator returns exactly two codes of
\* one codeword each, the code {[0]} followed by the code {[1]}
C2_TwoSingletonCodes ==
    ReturnedFrom(1) => ret = << << <<0>> >>, << <<1>> >> >>

\* C2 amended: called with n = 1 the enumerator returns exactly one code, which
\* holds the two codewords [0] and [1] in that order
C2_OneCodeOfTwoCodewords ==
    ReturnedFrom(1) =>
        /\ Len(ret) = 1
        /\ Len(ret[1]) = 2
        /\ ret[1][1] = <<0>>
        /\ ret[1][2] = <<1>>

C2_Witness == ReturnedFrom(1) /\ n = 1

\* the output the notebook documents for make_induct_one_pierced(3)
DocumentedOutput3 ==
    <<<<<<0, 0, 0>>, <<1, 0, 0>>, <<0, 1, 0>>, <<0, 0, 1>>>>,
       <<<<0, 0, 0>>, <<1, 0, 0>>, <<0, 1, 0>>, <<1, 0, 1>>>>,
       <<<<0, 0, 0>>, <<1, 0, 0>>, <<0, 1, 0>>, <<0, 1, 1>>>>,
       <<<<0, 0, 0>>, <<1, 0, 0>>, <<1, 1, 0>>, <<0, 0, 1>>>>,
       <<<<0, 0, 0>>, <<1, 0, 0>>, <<1, 1, 0>>, <<1, 0, 1>>>>,
       <<<<0, 0, 0>>, <<1, 0, 0>>, <<1, 1, 0>>, <<1, 1, 1>>>>,
       <<<<0, 0, 0>>, <<1, 0, 0>>, <<0, 1, 0>>, <<1, 1, 0>>, <<0, 0, 1>>>>,
       <<<<0, 0, 0>>, <<1, 0, 0>>, <<0, 1, 0>>, <<1, 1, 0>>, <<1, 0, 1>>>>,
       <<<<0, 0, 0>>, <<1, 0, 0>>, <<0, 1, 0>>, <<1, 1, 0>>, <<0, 1, 1>>>>,
       <<<<0, 0, 0>>, <<1, 0, 0>>, <<0, 1, 0>>, <<1, 1, 0>>, <<1, 1, 1>>>>,
       <<<<0, 0, 0>>, <<1, 0, 0>>, <<0, 1, 0>>, <<0, 0, 1>>, <<1, 0, 1>>>>,
       <<<<0, 0, 0>>, <<1, 0, 0>>, <<0, 1, 0>>, <<0, 0, 1>>, <<0, 1, 1>>>>,
       <<<<0, 0, 0>>, <<1, 0, 0>>, <<1, 1, 0>>, <<0, 0, 1>>, <<1, 0, 1>>>>,
       <<<<0, 0, 0>>, <<1, 0, 0>>, <<1, 1, 0>>, <<1, 0, 1>>, <<1, 1, 1>>>>,
       <<<<0, 0, 0>>, <<1, 0, 0>>, <<0, 1, 0>>, <<1, 1, 0>>, <<0, 0, 1>>, <<1, 0, 1>>>>,
       <<<<0, 0, 0>>, <<1, 0, 0>>, <<0, 1, 0>>, <<1, 1, 0>>, <<0, 1, 1>>, <<1, 1, 1>>>>,
       <<<<0, 0, 0>>, <<1, 0, 0>>, <<0, 1, 0>>, <<1, 1, 0>>, <<0, 0, 1>>, <<0, 1, 1>>>>,
       <<<<0, 0, 0>>, <<1, 0, 0>>, <<0, 1, 0>>, <<1, 1, 0>>, <<1, 0, 1>>, <<1, 1, 1>>>>>>

\* C3: called with n = 3 the enumerator returns exactly 18 codes, equal code by
\* code and codeword by codeword, in order, to the documented output
C3_DocumentedOutput ==
    ReturnedFrom(3) => (Len(ret) = 18 /\ ret = DocumentedOutput3)

C3_Witness ==
    /\ ReturnedFrom(3)
    /\ n = 3
    /\ ret[1] = <<<<0, 0, 0>>, <<1, 0, 0>>, <<0, 1, 0>>, <<0, 0, 1>>>>
    /\ ret[18] = <<<<0, 0, 0>>, <<1, 0, 0>>, <<0, 1, 0>>, <<1, 1, 0>>,
                   <<1, 0, 1>>, <<1, 1, 1>>>>

\* C4: the codewords of every returned code are pairwise distinct
C4_DistinctCodewords ==
    pc = "return" =>
        \A c \in 1..Len(ret) :
            \A a, b \in 1..Len(ret[c]) : a /= b => ret[c][a] /= ret[c][b]

\* a returned code that got its last two codewords from a 1-piercing
C4_Witness ==
    /\ ReturnedFrom(3)
    /\ \E c \in 1..Len(ret) : Len(ret[c]) = 6

\* the concatenation of a sequence of sequences
RECURSIVE C10_Flatten(_)
C10_Flatten(seqs) ==
    IF seqs = <<>> THEN <<>> ELSE Head(seqs) \o C10_Flatten(Tail(seqs))

\* inflate(C): every codeword of C with a trailing 0
C10_Inflate(C) == [k \in 1..Len(C) |-> C[k] \o <<0>>]

\* the zero-piercings of C: one per codeword d of C, in order
C10_ZeroPiercings(C) ==
    [k \in 1..Len(C) |-> C10_Inflate(C) \o <<C[k] \o <<1>>>>]

\* c with position i set to 0
C10_Partner(c, i) == [p \in 1..Len(c) |-> IF p = i THEN 0 ELSE c[p]]

\* the one-piercings of C at neuron i from the codewords at positions k..Len(C)
RECURSIVE C10_OnePiercingsFrom(_, _, _)
C10_OnePiercingsFrom(C, i, k) ==
    IF k > Len(C)
    THEN <<>>
    ELSE (IF C[k][i] = 1 /\ C10_Partner(C[k], i) \in {C[m] : m \in 1..Len(C)}
          THEN <<C10_Inflate(C)
                 \o <<C10_Partner(C[k], i) \o <<1>>, C[k] \o <<1>>>>>>
          ELSE <<>>)
         \o C10_OnePiercingsFrom(C, i, k + 1)

\* the one-piercings of C, neuron by neuron
C10_OnePiercings(C, k) ==
    C10_Flatten([i \in 1..(k - 1) |-> C10_OnePiercingsFrom(C, i, 1)])

\* the result for k described from the codes returned for k - 1
C10_Expected(codes, k) ==
    C10_Flatten([c \in 1..Len(codes) |-> C10_ZeroPiercings(codes[c])])
    \o C10_Flatten([c \in 1..Len(codes) |-> C10_OnePiercings(codes[c], k)])

\* C10: for k > 1 the result is, from the codes C returned for k - 1 in order,
\* all zero-piercings (inflate(C) then d with a trailing 1, per codeword d),
\* then all one-piercings (inflate(C), the partner with a trailing 1, then c
\* with a trailing 1, per neuron and per codeword c with a partner in C), and
\* nothing else, nothing removed
C10_ResultFromSmallerCodes ==
    (pc = "return" /\ level > 1) => ret = C10_Expected(smaller_codes, level)

\* the result for 3: the 10 zero-piercings, then the 8 one-piercings, the
\* first of which puts the partner [0,0] before the codeword [1,0]
C10_Witness ==
    /\ ReturnedFrom(3)
    /\ Len(zero_piercings) = 10
    /\ Len(one_piercings) = 8
    /\ ret[11] = <<<<0, 0, 0>>, <<1, 0, 0>>, <<0, 1, 0>>, <<0, 0, 1>>,
                   <<1, 0, 1>>>>

\* ------------------------------------------------- claims about the table
\* codeword is all-zero
AllZero(codeword) == \A p \in 1..Len(codeword) : codeword[p] = 0

\* the ideal computed for the code at position k of code_list
IdealOf(k) == toric_ideals[k]

\* the code whose matrix row 1 of the documented table shows
ExampleCode ==
    <<<<0, 0, 0>>, <<1, 0, 0>>, <<0, 1, 0>>, <<1, 1, 0>>, <<0, 0, 1>>>>

\* the rows of that matrix
ExampleRows == <<<<0, 1, 0, 1>>, <<0, 1, 1, 0>>, <<1, 0, 0, 0>>>>

\* C5: for every enumerated code the matrix has exactly the nonzero codewords
\* as its columns, each once: the first codeword is all-zero and dropped, no
\* other codeword is all-zero, and column j (0-based) is the codeword at
\* position len(code)-1-j; the example code gives the documented matrix
C5_MatrixColumns ==
    \A k \in 1..Len(toric_ideals) :
        LET code == code_list[k]
            mat  == IdealOf(k).mat
            L    == Len(code)
        IN  /\ AllZero(code[1])
            /\ \A p \in 2..L : ~AllZero(code[p])
            /\ mat.ncols = L - 1
            /\ mat.nrows = Len(code[1])
            /\ Len(mat.rows) = mat.nrows
            /\ \A r \in 1..mat.nrows :
                   /\ Len(mat.rows[r]) = mat.ncols
                   /\ \A j \in 0..(L - 2) :
                          mat.rows[r][j + 1] = code[(L - 1 - j) + 1][r]
            /\ code = ExampleCode => mat.rows = ExampleRows

C5_Witness ==
    \E k \in 1..Len(toric_ideals) :
        /\ code_list[k] = ExampleCode
        /\ IdealOf(k).mat.rows = ExampleRows

\* the positions of the processed codes whose degree list is not [-1]
C8_Kept == {k \in 1..Len(toric_ideals) : IdealOf(k).degrees /= <<-1>>}

\* the largest element of a degree list
C8_Max(degrees) ==
    CHOOSE m \in {degrees[p] : p \in 1..Len(degrees)} :
        \A p \in 1..Len(degrees) : degrees[p] <= m

\* C8: the table holds one record [matrix, groebner_basis, max_degree] for
\* exactly the codes whose degree list is not [-1], none for the others, in
\* the order of the codes; max_degree is the maximum of the degree list
C8_TableRecords ==
    /\ Len(toric_ideals) = (IF tpc = "idle" THEN 0 ELSE ti - 1)
    /\ tpc = "returned" => Len(toric_ideals) = Len(code_list)
    /\ Len(clean) = Cardinality(C8_Kept)
    /\ \A k \in 1..Len(toric_ideals) :
           /\ IdealOf(k).mat.ncols = Len(code_list[k]) - 1
           /\ k \in C8_Kept =>
                  LET j == Cardinality({m \in C8_Kept : m <= k})
                  IN  clean[j] = <<IdealOf(k).mat,
                                   GroebnerBasis(IdealOf(k)),
                                   C8_Max(IdealOf(k).degrees)>>

\* a returned table of two codes: the first discarded, the second kept
C8_Witness ==
    /\ tpc = "returned"
    /\ Len(code_list) = 2
    /\ IdealOf(1).degrees = <<-1>>
    /\ IdealOf(2).degrees = <<1, 3, 2>>
    /\ Len(clean) = 1
    /\ clean[1][3] = 3

\* the construction was attempted on the code at position k of code_list
C9_Attempted(k) == ti > k \/ (tpc = "raised" /\ ti = k)

\* C9 as stated: the construction fails with EmptyCode on a code that has a
\* first codeword to drop and fewer than 2 codewords after it is dropped, and
\* passes nothing on to the toric-ideal routine
C9_FailsWithEmptyCode ==
    \A k \in 1..Len(code_list) :
        (Len(code_list[k]) >= 1 /\ Len(code_list[k]) - 1 < 2
         /\ C9_Attempted(k)) =>
            /\ tpc = "raised"
            /\ terr = "EmptyCode"
            /\ Len(toric_ideals) < k

\* the variable names of the columns code[len-1], ..., code[1]
C9_Names(code) ==
    IF Len(code) = 2
    THEN <<"y">> \o [p \in 1..Len(code[2]) |->
                        IF code[2][p] = 0 THEN "0" ELSE "1"]
    ELSE <<>>

\* C9 amended: no EmptyCode error exists; a code of 1 or 2 codewords (0 or 1
\* left after the first is dropped) gets a matrix of 0 or 1 columns and a
\* name string of no or one name, both passed to the toric-ideal routine; the
\* construction fails only on a code without codewords, with an IndexError
C9_NoValidation ==
    /\ terr /= "EmptyCode"
    /\ tpc = "raised" => (terr = "IndexError" /\ code_list[ti] = <<>>)
    /\ \A k \in 1..Len(code_list) :
           (Len(code_list[k]) \in {1, 2} /\ C9_Attempted(k)) =>
               /\ k <= Len(toric_ideals)
               /\ IdealOf(k).mat.ncols = Len(code_list[k]) - 1
               /\ IdealOf(k).names = C9_Names(code_list[k])

\* a code of 2 codewords went through: 1 column, 1 name
C9_Witness ==
    /\ ti > 1
    /\ Len(code_list[1]) = 2
    /\ IdealOf(1).mat.ncols = 1
    /\ IdealOf(1).names = <<"y", "1", "0">>

\* ------------------------------------------------ claims about the helpers
\* C6: for a non-empty code of length L, reverse_code returns r of length L
\* with r[0] = code[0] and r[k] = code[L-k] for 1 <= k < L, so [a,b,c,d] gives
\* [a,d,c,b]; the argument is left as it was
C6_ReverseCode ==
    /\ [](rc_pc = "returned" =>
            LET L == Len(rc_code)
            IN  /\ L >= 1
                /\ Len(rc_results) = L
                /\ rc_results[1] = rc_code[1]
                /\ \A k \in 1..(L - 1) : rc_results[k + 1] = rc_code[(L - k) + 1]
                /\ rc_code = <<"a", "b", "c", "d">> =>
                       rc_results = <<"a", "d", "c", "b">>)
    /\ [][rc_code' = rc_code]_vars

C6_Witness ==
    /\ rc_pc = "returned"
    /\ rc_code = <<"a", "b", "c", "d">>
    /\ rc_results = <<"a", "d", "c", "b">>

\* the matrix with the columns [1,0] and [0,1]
C7_ExampleMatrix ==
    [nrows |-> 2, ncols |-> 2, rows |-> <<<<1, 0>>, <<0, 1>>>>]

====
